---- MODULE Spec2Model ----
(***************************************************************************)
(* Wildlife-trafficking analysis pipeline: the scenario models              *)
(* (Scripts/Scenario_analysis.py), the Monte Carlo market-size model        *)
(* (Scripts/Monte_carlo.py), the route network (Scripts/network_analysis.py)*)
(* and the covariate regression (Scripts/regression_model.py).  Every stage *)
(* reads tables persisted as CSV files and writes new ones; the files are   *)
(* the state.                                                               *)
(*                                                                         *)
(* Floating-point numbers are modelled as exact rationals [num, den] in     *)
(* lowest terms; den = 0 encodes the IEEE results of a division by zero     *)
(* (num = 1: inf, num = 0: nan).                                            *)
(***************************************************************************)
EXTENDS Integers, Sequences, FiniteSets, TLC

(* ------------------------------ bounds -------------------------------- *)

\* rows of route_edges.csv
MaxEdges == 3
\* largest count of one route edge
MaxCount == 1
\* rows of chokepoints.csv
MaxChoke == 2
\* largest top_n argument of run_chokepoint_scenario
MaxTopN == 2
\* rows of data/incident-summary-and-species-3322.csv
MaxRaw == 1
\* draws per scenario (10000 in the scripts)
iterations == 2
\* rows of incidents_geo.csv
MaxIncidents == 2
\* rows of the species file in the runs that look at the observed total
MaxValuedRows == 2
\* rows of country_year.csv
MaxCountryYears == 2
\* rows of one indicator table
MaxCovariateRows == 1
\* rows of the location file
MaxLocationRows == 2

(* ----------------------------- rationals ------------------------------ *)

Abs(x) == IF x < 0 THEN -x ELSE x

RECURSIVE Gcd(_, _)
Gcd(a, b) == IF b = 0 THEN a ELSE Gcd(b, a % b)

\* n / d as a float division of two finite numbers
Frac(n, d) ==
  IF d = 0
    THEN [num |-> IF n = 0 THEN 0 ELSE 1, den |-> 0]
    ELSE LET g == Gcd(Abs(n), Abs(d))
             s == IF d < 0 THEN -1 ELSE 1
         IN  [num |-> s * (n \div g), den |-> s * (d \div g)]

Zero == [num |-> 0, den |-> 1]

IsFinite(q) == q.den # 0

FracAdd(p, q) == Frac(p.num * q.den + q.num * p.den, p.den * q.den)
FracSub(p, q) == Frac(p.num * q.den - q.num * p.den, p.den * q.den)
FracMul(p, q) == Frac(p.num * q.num, p.den * q.den)
FracDiv(p, q) == Frac(p.num * q.den, p.den * q.num)
FracLeq(p, q) == p.num * q.den <= q.num * p.den
FracLess(p, q) == p.num * q.den < q.num * p.den

(* --------------------- chokepoint disruption model --------------------- *)

Countries == {"A", "B", "C", "D"}

\* the ordered (origin, destination) keys a route edge can have, in the
\* order groupby sorts them
RoutePairs ==
  << <<"A", "B">>, <<"A", "C">>, <<"B", "A">>, <<"B", "C">>,
     <<"B", "D">>, <<"C", "D">>, <<"D", "C">> >>

RECURSIVE SortedSeq(_)
SortedSeq(S) ==
  IF S = {} THEN <<>>
  ELSE LET m == CHOOSE x \in S : \A y \in S : x <= y
       IN  <<m>> \o SortedSeq(S \ {m})

\* route_edges.csv: one row per key, keys unique and sorted
EdgeTable(keys, cnt) ==
  LET ks == SortedSeq(keys)
  IN  [i \in 1..Len(ks) |->
         [origin_country |-> RoutePairs[ks[i]][1],
          destination_country |-> RoutePairs[ks[i]][2],
          count |-> cnt[ks[i]]]]

EdgeTables ==
  UNION { { EdgeTable(keys, cnt) : cnt \in [keys -> 0..MaxCount] } :
            keys \in { K \in SUBSET (1..Len(RoutePairs)) : Cardinality(K) <= MaxEdges } }

\* sequences of distinct elements of S, at most n long
RECURSIVE DistinctSeqs(_, _)
DistinctSeqs(S, n) ==
  IF n = 0 THEN { <<>> }
  ELSE { <<>> } \cup
       UNION { { <<x>> \o t : t \in DistinctSeqs(S \ {x}, n - 1) } : x \in S }

\* chokepoints.csv: one row per country (the centrality column is never
\* read by the scenario and is left out)
ChokeTables ==
  { [i \in 1..Len(cs) |-> [country |-> cs[i]]] : cs \in DistinctSeqs(Countries, MaxChoke) }

VARIABLES
  route_edges,      \* outputs/tables/route_edges.csv
  chokepoints,      \* outputs/tables/chokepoints.csv
  impact_csv,       \* outputs/tables/scenario_chokepoint_impact.csv
  top_n,            \* the argument of the last run_chokepoint_scenario
  top_choke,        \* the chokepoint countries the last run removed
  choke_status      \* how the last run of run_chokepoint_scenario ended

choke_vars == <<route_edges, chokepoints, impact_csv, top_n, top_choke, choke_status>>

VARIABLES
  species_raw,                  \* data/incident-summary-and-species-3322.csv
  species_value_observed,       \* outputs/tables/species_value_observed.csv
  monte_carlo_samples,          \* outputs/tables/monte_carlo_samples.csv
  monte_carlo_summary,          \* outputs/tables/monte_carlo_summary.csv
  mc_status,                    \* how the last run of run_monte_carlo ended
  scenario_entries,             \* the entries written in the scenarios literal
  scenario_enforcement_summary, \* outputs/tables/scenario_enforcement_summary.csv
  scenario_enforcement_samples, \* outputs/tables/scenario_enforcement_samples.csv
  enf_status                    \* how the last run_enforcement_scenarios ended

mc_vars == <<species_raw, species_value_observed, monte_carlo_samples,
             monte_carlo_summary, mc_status>>

enf_vars == <<scenario_entries, scenario_enforcement_summary,
              scenario_enforcement_samples, enf_status>>

VARIABLES
  incidents_geo,    \* outputs/processed/incidents_geo.csv, as text cells
  net_status        \* how the last run of run_network ended

net_vars == <<incidents_geo, net_status>>

VARIABLES
  country_year,         \* outputs/tables/country_year.csv
  wdi_mammals,          \* data/WB_WDI_EN_MAM_THRD_NO.csv
  wdi_birds,            \* data/WB_WDI_EN_BIR_THRD_NO.csv
  wdi_fish,             \* data/WB_WDI_EN_FSH_THRD_NO.csv
  design,               \* the rows of X that entered the last fit
  regression_results,   \* outputs/tables/regression_results.csv
  country_risk_scores,  \* outputs/tables/country_risk_scores.csv
  reg_status            \* how the last run of run_regression ended

reg_vars == <<country_year, wdi_mammals, wdi_birds, wdi_fish, design,
              regression_results, country_risk_scores, reg_status>>

VARIABLES
  locations_raw,    \* data/incident-summary-and-locations-3322.csv
  clean_status      \* how the last run of clean_all ended

clean_vars == <<locations_raw, clean_status>>

VARIABLES
  market_view,      \* what the Market Size view of the dashboard last showed
  scenario_view     \* what the Scenario Analysis view last showed

dash_vars == <<market_view, scenario_view>>

vars == <<choke_vars, mc_vars, enf_vars, net_vars, reg_vars, clean_vars, dash_vars>>

\* a file that does not exist, and a file holding the rows of a table
NoFile == [exists |-> FALSE, rows |-> <<>>]
File(rows) == [exists |-> TRUE, rows |-> rows]

\* a missing value of a data frame
NaN == "<NaN>"

\* a scenario_chokepoint_impact.csv left behind by an earlier run
StaleImpact ==
  File(<< [baseline_total_flow |-> 7, disrupted_total_flow |-> 7,
           reduction_pct |-> Zero, top_chokepoints_removed |-> ""] >>)

\* DataFrame.head(n) taking one row too many
DfHeadOffByOne(df, n) == SubSeq(df, 1, IF n + 1 < Len(df) THEN n + 1 ELSE Len(df))

\* DataFrame.head(n) for n >= 0
DfHead(df, n) == SubSeq(df, 1, IF n < Len(df) THEN n ELSE Len(df))

\* df[column].tolist()
ColumnList(df, col) == [i \in 1..Len(df) |-> df[i][col]]

\* Series.isin(values)
IsIn(x, values) == \E i \in 1..Len(values) : values[i] = x

\* edges["count"].sum()
RECURSIVE SumCount(_)
SumCount(df) ==
  IF df = <<>> THEN 0 ELSE df[1].count + SumCount(Tail(df))

\* ", ".join(names)
RECURSIVE JoinNames(_)
JoinNames(names) ==
  IF names = <<>> THEN ""
  ELSE IF Len(names) = 1 THEN names[1]
  ELSE names[1] \o ", " \o JoinNames(Tail(names))

\* the mask with "and" where the code has "or"
KeepsEdgeBothEnds(row, removed) ==
  ~(IsIn(row.origin_country, removed) /\ IsIn(row.destination_country, removed))

\* the mask testing the origin only
KeepsEdgeOriginOnly(row, removed) == ~IsIn(row.origin_country, removed)

\* lines 121-124: the mask of the edges that survive
KeepsEdge(row, removed) ==
  ~(IsIn(row.origin_country, removed) \/ IsIn(row.destination_country, removed))

\* the mask without its negation: the edges that touch a removed country
EdgesRemoved(edges, removed) ==
  SelectSeq(edges, LAMBDA row : ~KeepsEdge(row, removed))

EdgesDisrupted(edges, removed) ==
  SelectSeq(edges, LAMBDA row : KeepsEdge(row, removed))

\* the reduction without the guard of line 130
ReductionPctUnguarded(baseline_total_flow, disrupted_total_flow) ==
  Frac(100 * (baseline_total_flow - disrupted_total_flow), baseline_total_flow)

ReductionPct(baseline_total_flow, disrupted_total_flow) ==
  IF baseline_total_flow > 0
    THEN Frac(100 * (baseline_total_flow - disrupted_total_flow), baseline_total_flow)
    ELSE Zero

TopChoke(choke, n) == ColumnList(DfHead(choke, n), "country")

ImpactRow(edges, removed) ==
  LET baseline_total_flow == SumCount(edges)
      disrupted_total_flow == SumCount(EdgesDisrupted(edges, removed))
  IN  [baseline_total_flow |-> baseline_total_flow,
       disrupted_total_flow |-> disrupted_total_flow,
       reduction_pct |-> ReductionPct(baseline_total_flow, disrupted_total_flow),
       top_chokepoints_removed |-> JoinNames(removed)]

\* run_chokepoint_scenario without the emptiness check of lines 109-111
RunChokepointScenarioNoSkip(n) ==
  /\ top_n' = n
  /\ top_choke' = TopChoke(chokepoints, n)
  /\ impact_csv' = File(<< ImpactRow(route_edges, top_choke') >>)
  /\ choke_status' = "saved"
  /\ UNCHANGED <<route_edges, chokepoints, mc_vars, enf_vars, net_vars, reg_vars, clean_vars, dash_vars>>

RunChokepointScenario(n) ==
  /\ top_n' = n
  /\ IF route_edges = <<>> \/ chokepoints = <<>>
       THEN /\ choke_status' = "skipped"
            /\ UNCHANGED <<route_edges, chokepoints, impact_csv, top_choke>>
       ELSE /\ top_choke' = TopChoke(chokepoints, n)
            /\ impact_csv' = File(<< ImpactRow(route_edges, top_choke') >>)
            /\ choke_status' = "saved"
            /\ UNCHANGED <<route_edges, chokepoints>>
  /\ UNCHANGED <<mc_vars, enf_vars, net_vars, reg_vars, clean_vars, dash_vars>>

(* ------------------------- Monte Carlo model --------------------------- *)

Half == [num |-> 1, den |-> 2]

\* the values random_sample() is drawn from: the closed end 0 of [0, 1) and
\* an interior point
UnitDraws == {Zero, Half}

\* np.random.uniform(low, high): low + (high - low) * random_sample()
Uniform(low, high, u) == FracAdd(low, FracMul(FracSub(high, low), u))

\* the estimate scaled the wrong way
EstTrueValueTimes(observed_total, rate) == FracMul(Frac(observed_total, 1), rate)

\* observed_total / detection_rate, observed_total a finite number
EstTrueValue(observed_total, rate) == FracDiv(Frac(observed_total, 1), rate)

RECURSIVE FracSum(_)
FracSum(vals) ==
  IF vals = <<>> THEN Zero ELSE FracAdd(vals[1], FracSum(Tail(vals)))

\* the sum where the mean is meant
MeanNoDivide(vals) == FracSum(vals)

\* ndarray.mean()
Mean(vals) == FracDiv(FracSum(vals), Frac(Len(vals), 1))

RECURSIVE InsertSorted(_, _)
InsertSorted(x, sorted) ==
  IF sorted = <<>> THEN <<x>>
  ELSE IF FracLeq(x, sorted[1]) THEN <<x>> \o sorted
  ELSE <<sorted[1]>> \o InsertSorted(x, Tail(sorted))

RECURSIVE SortFracs(_)
SortFracs(vals) ==
  IF vals = <<>> THEN <<>> ELSE InsertSorted(vals[1], SortFracs(Tail(vals)))

\* np.percentile(vals, q) on the sorted values: linear interpolation between
\* the two nearest ranks
Percentile(sorted, q) ==
  LET pos == q * (Len(sorted) - 1)
      lo == (pos \div 100) + 1
      hi == IF lo < Len(sorted) THEN lo + 1 ELSE lo
      t == Frac(pos % 100, 100)
  IN  FracAdd(sorted[lo], FracMul(FracSub(sorted[hi], sorted[lo]), t))

\* mean, np.median, np.percentile(5), np.percentile(95) of the values
SummaryStats(values) ==
  LET sorted == SortFracs(values)
  IN  [mean_true_value_usd |-> Mean(values),
       median_true_value_usd |-> Percentile(sorted, 50),
       p05_true_value_usd |-> Percentile(sorted, 5),
       p95_true_value_usd |-> Percentile(sorted, 95)]

\* lines 75-76 of Monte_carlo.py: the assumed detection range
detection_low == [num |-> 1, den |-> 10]
detection_high == [num |-> 3, den |-> 10]

\* "Common Name" cells and what .astype(str).str.strip().str.lower() makes
\* of them
RawNames == {"Ivory ", "pangolin"}
\* astype(str).str.strip().str.lower(): a missing name becomes the text "nan"
CleanName(name) ==
  IF name = "Ivory " THEN "ivory" ELSE IF name = NaN THEN "nan" ELSE name
NameOrder == <<"ivory", "nan", "pangolin">>

\* "Value in USD" cells: one that pd.to_numeric coerces to NaN, and numbers
RawCells ==
  { [numeric |-> FALSE, value |-> 0] } \cup
  { [numeric |-> TRUE, value |-> v] : v \in {-1, 0, 1, 2} }

RECURSIVE SeqsUpTo(_, _)
SeqsUpTo(S, n) ==
  IF n = 0 THEN { <<>> }
  ELSE { <<>> } \cup UNION { { <<x>> \o t : t \in SeqsUpTo(S, n - 1) } : x \in S }

RawTables ==
  SeqsUpTo({ [species_name |-> nm, value_usd |-> c] : nm \in RawNames, c \in RawCells },
           MaxRaw)

\* raw tables in which two spellings of one species and a missing name occur
ValuedTables ==
  SeqsUpTo({ [species_name |-> nm, value_usd |-> c] :
               nm \in RawNames \cup {"ivory", NaN}, c \in RawCells },
           MaxValuedRows)

\* every row whose value is a number kept, whatever its sign
SpeciesValAnySign(raw) ==
  LET valid == SelectSeq(raw, LAMBDA r : r.value_usd.numeric)
  IN  [i \in 1..Len(valid) |->
         [species_name |-> CleanName(valid[i].species_name),
          value_usd |-> valid[i].value_usd.value]]

\* lines 29-42: rename, clean the names, coerce the values, keep the rows
\* with a valid positive value
SpeciesVal(raw) ==
  LET valid == SelectSeq(raw, LAMBDA r : r.value_usd.numeric /\ r.value_usd.value > 0)
  IN  [i \in 1..Len(valid) |->
         [species_name |-> CleanName(valid[i].species_name),
          value_usd |-> valid[i].value_usd.value]]

\* df["value_usd"].sum()
RECURSIVE SumValue(_)
SumValue(rows) ==
  IF rows = <<>> THEN 0 ELSE rows[1].value_usd + SumValue(Tail(rows))

\* groupby("species_name")["value_usd"].sum().reset_index()
GroupBySpecies(rows) ==
  LET total(nm) == SumValue(SelectSeq(rows, LAMBDA r : r.species_name = nm))
      present == SelectSeq(NameOrder, LAMBDA nm : \E i \in 1..Len(rows) : rows[i].species_name = nm)
  IN  [i \in 1..Len(present) |-> [species_name |-> present[i], value_usd |-> total(present[i])]]

RECURSIVE InsertByValue(_, _)
InsertByValue(r, sorted) ==
  IF sorted = <<>> THEN <<r>>
  ELSE IF r.value_usd >= sorted[1].value_usd THEN <<r>> \o sorted
  ELSE <<sorted[1]>> \o InsertByValue(r, Tail(sorted))

\* sort_values("value_usd", ascending=False)
RECURSIVE SortByValueDesc(_)
SortByValueDesc(rows) ==
  IF rows = <<>> THEN <<>> ELSE InsertByValue(rows[1], SortByValueDesc(Tail(rows)))

\* lines 58-64: the species-level observed value with its share
SpeciesValue(species_val, observed_total) ==
  LET sorted == SortByValueDesc(GroupBySpecies(species_val))
  IN  [i \in 1..Len(sorted) |->
         [species_name |-> sorted[i].species_name,
          value_usd |-> sorted[i].value_usd,
          share_pct |-> Frac(100 * sorted[i].value_usd, observed_total)]]

\* lines 79-87: the sample table of one run
McSamples(observed_total, u) ==
  [i \in 1..iterations |->
     LET rate == Uniform(detection_low, detection_high, u[i])
     IN  [iteration |-> i,
          detection_rate |-> rate,
          estimated_true_value_usd |-> EstTrueValue(observed_total, rate)]]

\* lines 97-110: the summary row
McSummary(observed_total, samples) ==
  LET stats == SummaryStats(ColumnList(samples, "estimated_true_value_usd"))
  IN  [observed_total_usd |-> observed_total,
       det_low |-> detection_low,
       det_high |-> detection_high,
       mean_true_value_usd |-> stats.mean_true_value_usd,
       median_true_value_usd |-> stats.median_true_value_usd,
       p05_true_value_usd |-> stats.p05_true_value_usd,
       p95_true_value_usd |-> stats.p95_true_value_usd]

\* the run without its return on an empty table
RunMonteCarloNoAbort ==
  LET species_val == SpeciesVal(species_raw)
      observed_total == SumValue(species_val)
  IN  /\ mc_status = "not run"
      /\ \E u \in [1..iterations -> UnitDraws] :
           /\ species_value_observed' =
                File(SpeciesValue(species_val, observed_total))
           /\ monte_carlo_samples' = File(McSamples(observed_total, u))
           /\ monte_carlo_summary' =
                File(<< McSummary(observed_total, monte_carlo_samples'.rows) >>)
           /\ mc_status' = "complete"
      /\ UNCHANGED <<species_raw, choke_vars, enf_vars, net_vars, reg_vars, clean_vars, dash_vars>>

\* run_monte_carlo, run once in an execution of the pipeline
RunMonteCarlo ==
  LET species_val == SpeciesVal(species_raw)
      observed_total == SumValue(species_val)
  IN  /\ mc_status = "not run"
      /\ IF species_val = <<>>
           THEN /\ mc_status' = "aborted"
                /\ UNCHANGED <<species_value_observed, monte_carlo_samples,
                               monte_carlo_summary>>
           ELSE \E u \in [1..iterations -> UnitDraws] :
                  /\ species_value_observed' =
                       File(SpeciesValue(species_val, observed_total))
                  /\ monte_carlo_samples' = File(McSamples(observed_total, u))
                  /\ monte_carlo_summary' =
                       File(<< McSummary(observed_total, monte_carlo_samples'.rows) >>)
                  /\ mc_status' = "complete"
      /\ UNCHANGED <<species_raw, choke_vars, enf_vars, net_vars, reg_vars, clean_vars, dash_vars>>

(* ------------------------ enforcement scenarios ------------------------ *)

Scenario(name, low_num, low_den, high_num, high_den) ==
  [name |-> name, low |-> Frac(low_num, low_den), high |-> Frac(high_num, high_den)]

\* lines 25-29 of Scenario_analysis.py
ReferenceScenarios ==
  << Scenario("baseline_10_30", 10, 100, 30, 100),
     Scenario("improved_20_40", 20, 100, 40, 100),
     Scenario("weak_05_20", 5, 100, 20, 100) >>

\* the scenarios literal as it can be written: the repository's table, a
\* table with an empty range, one with an inverted range, and one that
\* names a scenario twice
ScenarioConfigs ==
  { ReferenceScenarios,
    << Scenario("flat_50_50", 50, 100, 50, 100) >>,
    << Scenario("inverted_30_10", 30, 100, 10, 100) >>,
    << Scenario("baseline_10_30", 10, 100, 30, 100),
       Scenario("baseline_10_30", 20, 100, 40, 100) >> }

\* a dict display evaluated left to right: a repeated key keeps its first
\* position and takes the last value
DictPut(dict, e) ==
  IF \E i \in 1..Len(dict) : dict[i].name = e.name
    THEN [i \in 1..Len(dict) |-> IF dict[i].name = e.name THEN e ELSE dict[i]]
    ELSE Append(dict, e)

RECURSIVE DictOf(_, _)
DictOf(entries, k) ==
  IF k = 0 THEN <<>> ELSE DictPut(DictOf(entries, k - 1), entries[k])

DictLiteral(entries) == DictOf(entries, Len(entries))

\* load_observed_total: species_val["value_usd"].sum()
LoadObservedTotal(file) == SumValue(file.rows)

\* lines 39-40 and 58-64: the sample block of one scenario
EnfBlock(sc, observed_total, u) ==
  [k \in 1..iterations |->
     LET rate == Uniform(sc.low, sc.high, u[k])
     IN  [scenario |-> sc.name,
          detection_rate |-> rate,
          estimated_true_value_usd |-> EstTrueValue(observed_total, rate)]]

\* the summary record with the two bounds exchanged
EnfRecordSwapped(sc, block) ==
  LET stats == SummaryStats(ColumnList(block, "estimated_true_value_usd"))
  IN  [scenario |-> sc.name,
       det_low |-> sc.high,
       det_high |-> sc.low,
       mean_true_value_usd |-> stats.mean_true_value_usd,
       median_true_value_usd |-> stats.median_true_value_usd,
       p05_true_value_usd |-> stats.p05_true_value_usd,
       p95_true_value_usd |-> stats.p95_true_value_usd]

\* lines 42-56: the summary record of one scenario
EnfRecord(sc, block) ==
  LET stats == SummaryStats(ColumnList(block, "estimated_true_value_usd"))
  IN  [scenario |-> sc.name,
       det_low |-> sc.low,
       det_high |-> sc.high,
       mean_true_value_usd |-> stats.mean_true_value_usd,
       median_true_value_usd |-> stats.median_true_value_usd,
       p05_true_value_usd |-> stats.p05_true_value_usd,
       p95_true_value_usd |-> stats.p95_true_value_usd]

\* pd.concat(all_samples, ignore_index=True)
RECURSIVE Concat(_)
Concat(blocks) ==
  IF blocks = <<>> THEN <<>> ELSE blocks[1] \o Concat(Tail(blocks))

\* run_enforcement_scenarios, run once in an execution of the pipeline
RunEnforcementScenarios ==
  /\ enf_status = "not run"
  /\ IF ~species_value_observed.exists
       THEN /\ enf_status' = "crashed"
            /\ UNCHANGED <<scenario_enforcement_summary, scenario_enforcement_samples>>
       ELSE LET observed_total == LoadObservedTotal(species_value_observed)
                scenarios == DictLiteral(scenario_entries)
            IN  \E u \in [1..Len(scenarios) -> [1..iterations -> UnitDraws]] :
                  LET all_samples ==
                        [i \in 1..Len(scenarios) |->
                           EnfBlock(scenarios[i], observed_total, u[i])]
                      records ==
                        [i \in 1..Len(scenarios) |->
                           EnfRecord(scenarios[i], all_samples[i])]
                  IN  /\ scenario_enforcement_summary' = File(records)
                      /\ scenario_enforcement_samples' = File(Concat(all_samples))
                      /\ enf_status' = "complete"
  /\ UNCHANGED <<scenario_entries, choke_vars, mc_vars, net_vars, reg_vars, clean_vars, dash_vars>>

(* --------------------------- network analysis -------------------------- *)

\* the countries of the incident table
NetCountries == {"A", "B", "C"}

\* the text of an endpoint cell of incidents_geo.csv: a country name, the
\* empty cell to_csv writes for the NaN a left merge leaves, and the text
\* "nan" that str() makes of a missing Country
GeoCells == NetCountries \cup {"", "nan"}

\* the order of the cells as strings
CellOrder == <<"", "A", "B", "C", "nan">>

GeoTables ==
  SeqsUpTo({ [origin_country |-> o, destination_country |-> d] :
               o \in GeoCells, d \in GeoCells }, MaxIncidents)

\* the cell kept as the text it is
ReadCsvCellAsText(cell) == cell

\* pd.read_csv: the empty cell and the cells in the default NA list are NaN
ReadCsvCell(cell) == IF cell \in {"", "nan", "NaN", "NA"} THEN NaN ELSE cell

ReadGeo(rows) ==
  [i \in 1..Len(rows) |->
     [origin_country |-> ReadCsvCell(rows[i].origin_country),
      destination_country |-> ReadCsvCell(rows[i].destination_country)]]

NotNa(x) == x # NaN

\* lines 21-25: the rows with both endpoints, two columns kept
Edges(df) ==
  SelectSeq(df, LAMBDA r : NotNa(r.origin_country) /\ NotNa(r.destination_country))

Rank(c) == CHOOSE i \in 1..Len(CellOrder) : CellOrder[i] = c

\* the two endpoints taken as an unordered pair
PairCodeUnordered(o, d) ==
  IF Rank(o) <= Rank(d) THEN Rank(o) * (Len(CellOrder) + 1) + Rank(d)
  ELSE Rank(d) * (Len(CellOrder) + 1) + Rank(o)

\* the place of the key (o, d) in the lexicographic order of the keys
PairCode(o, d) == Rank(o) * (Len(CellOrder) + 1) + Rank(d)

\* lines 27-31: groupby([origin_country, destination_country]).size() as a
\* table: one row per key present, keys sorted, NaN keys dropped
EdgeCounts(edges) ==
  LET kept == SelectSeq(edges, LAMBDA r : NotNa(r.origin_country) /\ NotNa(r.destination_country))
      code(r) == PairCode(r.origin_country, r.destination_country)
      ks == SortedSeq({ code(kept[i]) : i \in 1..Len(kept) })
      first(k) == kept[CHOOSE i \in 1..Len(kept) : code(kept[i]) = k]
  IN  [j \in 1..Len(ks) |->
         [origin_country |-> first(ks[j]).origin_country,
          destination_country |-> first(ks[j]).destination_country,
          count |-> Len(SelectSeq(kept, LAMBDA r : code(r) = ks[j]))]]

\* lines 42-48: the nodes of the DiGraph in the order add_edge meets them
RECURSIVE GraphNodes(_)
GraphNodes(edge_counts) ==
  IF edge_counts = <<>> THEN <<>>
  ELSE LET before == GraphNodes(SubSeq(edge_counts, 1, Len(edge_counts) - 1))
           last == edge_counts[Len(edge_counts)]
           seen(ns, c) == \E i \in 1..Len(ns) : ns[i] = c
           withO == IF seen(before, last.origin_country) THEN before
                    ELSE Append(before, last.origin_country)
       IN  IF seen(withO, last.destination_country) THEN withO
           ELSE Append(withO, last.destination_country)

HasEdge(E, u, v) ==
  \E i \in 1..Len(E) : E[i].origin_country = u /\ E[i].destination_country = v

EdgeWeight(E, u, v) ==
  E[CHOOSE i \in 1..Len(E) : E[i].origin_country = u /\ E[i].destination_country = v].count

\* the simple paths from s to t
SimplePaths(E, N, s, t) ==
  { p \in DistinctSeqs(N, Cardinality(N)) :
      /\ Len(p) >= 2
      /\ p[1] = s
      /\ p[Len(p)] = t
      /\ \A i \in 1..(Len(p) - 1) : HasEdge(E, p[i], p[i + 1]) }

RECURSIVE PathWeight(_, _)
PathWeight(E, p) ==
  IF Len(p) < 2 THEN 0
  ELSE EdgeWeight(E, p[1], p[2]) + PathWeight(E, Tail(p))

\* the paths Dijkstra finds with weight="count"
ShortestPaths(E, N, s, t) ==
  LET ps == SimplePaths(E, N, s, t)
  IN  { p \in ps : \A q \in ps : PathWeight(E, p) <= PathWeight(E, q) }

\* the share of the shortest s-t paths that pass through v
PairDependency(E, N, v, s, t) ==
  LET sp == ShortestPaths(E, N, s, t)
      through == { p \in sp : \E i \in 2..(Len(p) - 1) : p[i] = v }
  IN  IF sp = {} THEN Zero ELSE Frac(Cardinality(through), Cardinality(sp))

RECURSIVE SumDependency(_, _, _, _)
SumDependency(E, N, v, pairs) ==
  IF pairs = {} THEN Zero
  ELSE LET p == CHOOSE q \in pairs : TRUE
       IN  FracAdd(PairDependency(E, N, v, p[1], p[2]),
                   SumDependency(E, N, v, pairs \ {p}))

\* line 55: nx.betweenness_centrality(G, weight="count", normalized=True)
\* of a directed graph: scaled by 1 / ((n - 1)(n - 2)) when n > 2
BetweennessCentrality(E, N, v) ==
  LET n == Cardinality(N)
      others == N \ {v}
      raw == SumDependency(E, N, v, { <<s, t>> \in others \X others : s # t })
  IN  IF n <= 2 THEN raw ELSE FracDiv(raw, Frac((n - 1) * (n - 2), 1))

\* r placed before the first row that is not above it
RECURSIVE InsertByCentrality(_, _)
InsertByCentrality(r, sorted) ==
  IF sorted = <<>> THEN <<r>>
  ELSE IF FracLeq(sorted[1].centrality, r.centrality) THEN <<r>> \o sorted
  ELSE <<sorted[1]>> \o InsertByCentrality(r, Tail(sorted))

\* sort_values("centrality", ascending=False): no second key, rows of equal
\* centrality keep the order they had
RECURSIVE SortByCentralityDesc(_)
SortByCentralityDesc(rows) ==
  IF rows = <<>> THEN <<>>
  ELSE InsertByCentrality(rows[1], SortByCentralityDesc(Tail(rows)))

\* lines 55-60: one row per node, in the order of the graph's nodes, sorted
CentralityDf(edge_counts) ==
  LET ns == GraphNodes(edge_counts)
      N == { ns[i] : i \in 1..Len(ns) }
  IN  SortByCentralityDesc(
        [i \in 1..Len(ns) |->
           [country |-> ns[i],
            centrality |-> BetweennessCentrality(edge_counts, N, ns[i])]])

\* run_network, run once in an execution of the pipeline; pd.read_csv raises
\* FileNotFoundError when incidents_geo.csv is not there
RunNetwork ==
  /\ net_status = "not run"
  /\ IF ~incidents_geo.exists
       THEN /\ net_status' = "crashed"
            /\ UNCHANGED <<route_edges, chokepoints>>
       ELSE LET edge_counts == EdgeCounts(Edges(ReadGeo(incidents_geo.rows)))
            IN  /\ route_edges' = edge_counts
                /\ chokepoints' = CentralityDf(edge_counts)
                /\ net_status' = "complete"
  /\ UNCHANGED <<incidents_geo, impact_csv, top_n, top_choke, choke_status,
                 mc_vars, enf_vars, reg_vars, clean_vars, dash_vars>>

(* ------------------------- covariate regression ------------------------ *)

\* the (country, year) keys of the tables, in the order groupby sorts them
RegKeys == << <<"X", 2020>>, <<"X", 2021>>, <<"Y", 2020>> >>

RegCountryOrder == <<"X", "Y">>

\* a float that is missing
NanValue == Frac(0, 0)

\* country_year.csv as clean_all writes it: one row per (incident_country,
\* year), sorted, the count being a group size
CountryYearTables ==
  UNION { { [i \in 1..Len(SortedSeq(keys)) |->
               [incident_country |-> RegKeys[SortedSeq(keys)[i]][1],
                year |-> RegKeys[SortedSeq(keys)[i]][2],
                incident_count |-> cnt[SortedSeq(keys)[i]]]] :
              cnt \in [keys -> {1, 2}] } :
            keys \in { K \in SUBSET (1..Len(RegKeys)) : Cardinality(K) <= MaxCountryYears } }

\* lines 32-53: an indicator table after rename and column selection, one
\* row per (country, year)
CovariateTables ==
  UNION { { [i \in 1..Len(SortedSeq(keys)) |->
               [country |-> RegKeys[SortedSeq(keys)[i]][1],
                year |-> RegKeys[SortedSeq(keys)[i]][2],
                value |-> val[SortedSeq(keys)[i]]]] :
              val \in [keys -> {1, 2}] } :
            keys \in { K \in SUBSET (1..Len(RegKeys)) : Cardinality(K) <= MaxCovariateRows } }

HasRow(table, country, year) ==
  \E j \in 1..Len(table) : table[j].country = country /\ table[j].year = year

\* the right-hand value a left merge gives the key (country, year)
Lookup(table, country, year) ==
  IF HasRow(table, country, year)
    THEN Frac(table[CHOOSE j \in 1..Len(table) :
                      table[j].country = country /\ table[j].year = year].value, 1)
    ELSE NanValue

\* lines 60-67: the mammals table is joined on (incident_country, year) and
\* brings its own country column, which is missing where nothing matched;
\* birds and fish are joined on that country column
MergedDf(cy, mam, bird, fish) ==
  [i \in 1..Len(cy) |->
     LET country == IF HasRow(mam, cy[i].incident_country, cy[i].year)
                      THEN cy[i].incident_country ELSE NaN
     IN  [incident_country |-> cy[i].incident_country,
          year |-> cy[i].year,
          incident_count |-> cy[i].incident_count,
          threatened_mammals |-> Lookup(mam, cy[i].incident_country, cy[i].year),
          threatened_birds |-> Lookup(bird, country, cy[i].year),
          threatened_fish |-> Lookup(fish, country, cy[i].year)]]

\* the value left missing
KeepNa(x) == x

\* fillna(0)
FillNa(x) == IF IsFinite(x) THEN x ELSE Zero

\* lines 78-85: X = df[covariates].fillna(0) with the constant column
DesignMatrix(df) ==
  [i \in 1..Len(df) |->
     [const |-> Frac(1, 1),
      threatened_mammals |-> FillNa(df[i].threatened_mammals),
      threatened_birds |-> FillNa(df[i].threatened_birds),
      threatened_fish |-> FillNa(df[i].threatened_fish)]]

\* line 89: the coefficients sm.OLS(y, X).fit() returns; the solver is a
\* library, its result is any of these
OlsParams ==
  { [const |-> Frac(1, 1), threatened_mammals |-> Frac(1, 2),
     threatened_birds |-> Frac(-1, 1), threatened_fish |-> Frac(2, 1)],
    [const |-> Zero, threatened_mammals |-> Frac(1, 1),
     threatened_birds |-> Frac(1, 1), threatened_fish |-> Frac(1, 1)] }

\* lines 99-102: variable, coefficient
CoefDf(params) ==
  << [variable |-> "const", coefficient |-> params.const],
     [variable |-> "threatened_mammals", coefficient |-> params.threatened_mammals],
     [variable |-> "threatened_birds", coefficient |-> params.threatened_birds],
     [variable |-> "threatened_fish", coefficient |-> params.threatened_fish] >>

\* lines 111-115: the score of a row of df, whose covariates were not filled
RowRisk(r, params) ==
  FracAdd(FracMul(r.threatened_mammals, params.threatened_mammals),
    FracAdd(FracMul(r.threatened_birds, params.threatened_birds),
            FracMul(r.threatened_fish, params.threatened_fish)))

\* Series.mean(): the mean of the values that are not missing, missing when
\* there is none
MeanSkipNa(vals) == Mean(SelectSeq(vals, IsFinite))

\* r placed before the first row that is not above it; a missing score is
\* below every number
RECURSIVE InsertByRisk(_, _)
InsertByRisk(r, sorted) ==
  IF sorted = <<>> THEN <<r>>
  ELSE IF \/ ~IsFinite(sorted[1].risk_score)
          \/ IsFinite(r.risk_score) /\ FracLeq(sorted[1].risk_score, r.risk_score)
         THEN <<r>> \o sorted
  ELSE <<sorted[1]>> \o InsertByRisk(r, Tail(sorted))

\* sort_values("risk_score", ascending=False), missing scores last
RECURSIVE SortByRiskDesc(_)
SortByRiskDesc(rows) ==
  IF rows = <<>> THEN <<>>
  ELSE InsertByRisk(rows[1], SortByRiskDesc(Tail(rows)))

\* lines 111-122: the risk table
RiskTable(df, params) ==
  LET present == SelectSeq(RegCountryOrder,
                           LAMBDA c : \E i \in 1..Len(df) : df[i].incident_country = c)
      scores(c) == LET rows == SelectSeq(df, LAMBDA r : r.incident_country = c)
                   IN  [i \in 1..Len(rows) |-> RowRisk(rows[i], params)]
  IN  SortByRiskDesc([j \in 1..Len(present) |->
                        [incident_country |-> present[j],
                         risk_score |-> MeanSkipNa(scores(present[j]))]])

\* run_regression, run once in an execution of the pipeline; pd.read_csv
\* raises when country_year.csv is not there and the fit raises on an empty
\* table; nothing else stops a run
RunRegression ==
  /\ reg_status = "not run"
  /\ IF ~country_year.exists
       THEN /\ reg_status' = "crashed"
            /\ UNCHANGED <<design, regression_results, country_risk_scores>>
       ELSE LET df == MergedDf(country_year.rows, wdi_mammals, wdi_birds, wdi_fish)
            IN  /\ design' = DesignMatrix(df)
                /\ IF df = <<>>
                     THEN /\ reg_status' = "crashed"
                          /\ UNCHANGED <<regression_results, country_risk_scores>>
                     ELSE \E params \in OlsParams :
                            /\ regression_results' = File(CoefDf(params))
                            /\ country_risk_scores' = File(RiskTable(df, params))
                            /\ reg_status' = "complete"
  /\ UNCHANGED <<country_year, wdi_mammals, wdi_birds, wdi_fish,
                 choke_vars, mc_vars, enf_vars, net_vars, clean_vars, dash_vars>>

(* ------------------------------- cleaning ------------------------------ *)

\* the Report IDs of the location file
IncidentIds == {1, 2, 3}

\* Country of Incident and the year of Date of Incident, the same on every
\* row of one report
IncidentOf(id) ==
  IF id = 3 THEN [incident_country |-> "Y", year |-> 2020]
  ELSE [incident_country |-> "X", year |-> 2020]

\* the Role cells of the file
RawRoles == {"Origin Location", "Destination Location ", "Transit Location"}

\* astype(str).str.strip().str.lower() of a Role cell
CleanRole(role) ==
  IF role = "Origin Location" THEN "origin location"
  ELSE IF role = "Destination Location " THEN "destination location"
  ELSE IF role = "Transit Location" THEN "transit location"
  ELSE role

\* astype(str).str.strip() of a Country cell: a missing one becomes "nan"
CleanCountry(cell) == IF cell = NaN THEN "nan" ELSE cell

\* data/incident-summary-and-locations-3322.csv: one row per location of a
\* report
LocationTables ==
  SeqsUpTo({ [incident_id |-> id,
              incident_country |-> IncidentOf(id).incident_country,
              year |-> IncidentOf(id).year,
              role |-> role,
              country_loc |-> c] :
               id \in IncidentIds, role \in RawRoles, c \in {"A", "B", NaN} },
           MaxLocationRows)

\* lines 68-75: the incidents frame is the whole file, one row per file row
Incidents(raw) ==
  [i \in 1..Len(raw) |->
     [incident_id |-> raw[i].incident_id,
      incident_country |-> raw[i].incident_country,
      year |-> raw[i].year]]

\* lines 127-137: the rows of one role, incident_id and the country renamed
RoleTable(raw, role, col) ==
  LET rows == SelectSeq(raw, LAMBDA r : CleanRole(r.role) = role)
  IN  [i \in 1..Len(rows) |->
         [x \in {"incident_id", col} |->
            IF x = col THEN CleanCountry(rows[i].country_loc) ELSE rows[i].incident_id]]

\* the left row with the column col set to v
WithColumn(l, col, v) ==
  [x \in DOMAIN l \cup {col} |-> IF x = col THEN v ELSE l[x]]

\* left.merge(right, on="incident_id", how="left"): one row per pair of a
\* left row and a matching right row, one row with NaN when none matches
RECURSIVE MergeLeft(_, _, _)
MergeLeft(left, right, col) ==
  IF left = <<>> THEN <<>>
  ELSE LET matches == SelectSeq(right, LAMBDA r : r.incident_id = left[1].incident_id)
           rows == IF matches = <<>>
                     THEN << WithColumn(left[1], col, NaN) >>
                     ELSE [j \in 1..Len(matches) |->
                             WithColumn(left[1], col, matches[j][col])]
       IN  rows \o MergeLeft(Tail(left), right, col)

\* lines 149-152: origin and destination joined to the incidents; the
\* transit and species tables hold one row per incident_id and add columns
\* only
IncidentsGeo(raw) ==
  MergeLeft(MergeLeft(Incidents(raw),
                      RoleTable(raw, "origin location", "origin_country"),
                      "origin_country"),
            RoleTable(raw, "destination location", "destination_country"),
            "destination_country")

\* lines 161-166: groupby([incident_country, year]).size()
CountryYear(geo) ==
  LET in(r, k) == r.incident_country = k[1] /\ r.year = k[2]
      present == SelectSeq(RegKeys, LAMBDA k : \E i \in 1..Len(geo) : in(geo[i], k))
  IN  [j \in 1..Len(present) |->
         [incident_country |-> present[j][1],
          year |-> present[j][2],
          incident_count |-> Len(SelectSeq(geo, LAMBDA r : in(r, present[j])))]]

\* to_csv: a missing value is written as an empty cell
ToCsvCell(x) == IF x = NaN THEN "" ELSE x

\* line 177: incidents_geo.to_csv
GeoCsv(geo) ==
  [i \in 1..Len(geo) |->
     [incident_id |-> geo[i].incident_id,
      incident_country |-> geo[i].incident_country,
      year |-> geo[i].year,
      origin_country |-> ToCsvCell(geo[i].origin_country),
      destination_country |-> ToCsvCell(geo[i].destination_country)]]

\* clean_all, run once in an execution of the pipeline
CleanAll ==
  /\ clean_status = "not run"
  /\ LET geo == IncidentsGeo(locations_raw)
     IN  /\ incidents_geo' = File(GeoCsv(geo))
         /\ country_year' = File(CountryYear(geo))
  /\ clean_status' = "complete"
  /\ UNCHANGED <<locations_raw, net_status, wdi_mammals, wdi_birds, wdi_fish,
                 design, regression_results, country_risk_scores, reg_status,
                 choke_vars, mc_vars, enf_vars, dash_vars>>

(* ------------------------------ dashboard ------------------------------ *)

\* Monte_carlo.py lines 83-87: the columns of monte_carlo_samples.csv in the
\* order of the DataFrame literal
McSamplesColumns == <<"iteration", "detection_rate", "estimated_true_value_usd">>

\* Scenario_analysis.py lines 136-141: the columns of
\* scenario_chokepoint_impact.csv in the order of the DataFrame literal
ImpactColumns ==
  <<"baseline_total_flow", "disrupted_total_flow", "reduction_pct",
    "top_chokepoints_removed">>

\* the columns whose cells are written as integers
IntColumns == {"iteration", "baseline_total_flow", "disrupted_total_flow"}

\* the number pd.read_csv makes of a cell of a numeric column
CellAsFloat(col, cell) == IF col \in IntColumns THEN Frac(cell, 1) ELSE cell

\* df[col] of a table read from a file
FloatColumn(df, col) == [i \in 1..Len(df) |-> CellAsFloat(col, df[i][col])]

\* Series.quantile(q / 100), Series.median() for q = 50
Quantile(values, q) == Percentile(SortFracs(values), q)

\* streamlit_app.py lines 306-331: the Market Size view; load_csv returns
\* None for a file that is not there
MarketSizeView ==
  /\ IF ~monte_carlo_samples.exists
       THEN market_view' = [status |-> "no file"]
       ELSE LET samples == monte_carlo_samples.rows
                value_col == McSamplesColumns[1]
                values == FloatColumn(samples, value_col)
            IN  market_view' =
                  [status |-> "shown",
                   value_col |-> value_col,
                   median_val |-> Quantile(values, 50),
                   p10 |-> Quantile(values, 10),
                   p90 |-> Quantile(values, 90),
                   histogram |-> values]
  /\ UNCHANGED <<scenario_view, choke_vars, mc_vars, enf_vars, net_vars,
                 reg_vars, clean_vars>>

\* scenario.melt(id_vars=[scen_col], value_vars=[base_col, after_col]): the
\* rows of the first value column, then those of the second
Melt(df, scen_col, base_col, after_col) ==
  [k \in 1..(2 * Len(df)) |->
     LET i == ((k - 1) % Len(df)) + 1
         col == IF k <= Len(df) THEN base_col ELSE after_col
     IN  [id |-> CellAsFloat(scen_col, df[i][scen_col]),
          State |-> col,
          Flow |-> CellAsFloat(col, df[i][col])]]

\* streamlit_app.py lines 383-405: the Scenario Analysis view
ScenarioView ==
  /\ IF ~impact_csv.exists
       THEN scenario_view' = [status |-> "no file"]
       ELSE LET scen_col == ImpactColumns[1]
                base_col == ImpactColumns[2]
                after_col == ImpactColumns[3]
            IN  scenario_view' =
                  [status |-> "shown",
                   scen_col |-> scen_col,
                   base_col |-> base_col,
                   after_col |-> after_col,
                   melted |-> Melt(impact_csv.rows, scen_col, base_col, after_col)]
  /\ UNCHANGED <<market_view, choke_vars, mc_vars, enf_vars, net_vars,
                 reg_vars, clean_vars>>

(* --------------------------- specifications ---------------------------- *)

ChokeIdle ==
  /\ route_edges = <<>>
  /\ chokepoints = <<>>
  /\ impact_csv = NoFile
  /\ top_n = 0
  /\ top_choke = <<>>
  /\ choke_status = "not run"

CleanIdle ==
  /\ locations_raw = <<>>
  /\ clean_status = "not run"

\* a view of the dashboard that was not opened
NotShown == [status |-> "not shown"]

DashIdle ==
  /\ market_view = NotShown
  /\ scenario_view = NotShown

NetIdle ==
  /\ incidents_geo = NoFile
  /\ net_status = "not run"

RegIdle ==
  /\ country_year = NoFile
  /\ wdi_mammals = <<>>
  /\ wdi_birds = <<>>
  /\ wdi_fish = <<>>
  /\ design = <<>>
  /\ regression_results = NoFile
  /\ country_risk_scores = NoFile
  /\ reg_status = "not run"

SimIdle ==
  /\ species_value_observed = NoFile
  /\ monte_carlo_samples = NoFile
  /\ monte_carlo_summary = NoFile
  /\ mc_status = "not run"
  /\ scenario_enforcement_summary = NoFile
  /\ scenario_enforcement_samples = NoFile
  /\ enf_status = "not run"

\* the chokepoint scenario on any pair of input tables
InitChoke ==
  /\ route_edges \in EdgeTables
  /\ chokepoints \in ChokeTables
  /\ impact_csv \in {NoFile, StaleImpact}
  /\ top_n = 0
  /\ top_choke = <<>>
  /\ choke_status = "not run"
  /\ species_raw = <<>>
  /\ scenario_entries = ReferenceScenarios
  /\ SimIdle
  /\ NetIdle
  /\ RegIdle
  /\ CleanIdle
  /\ DashIdle

NextChoke == \E n \in 0..MaxTopN : RunChokepointScenario(n)

SpecChoke == InitChoke /\ [][NextChoke]_vars

\* the Monte Carlo run followed by the enforcement scenarios, on any raw
\* species table
InitSim ==
  /\ species_raw \in RawTables
  /\ scenario_entries \in ScenarioConfigs
  /\ SimIdle
  /\ ChokeIdle
  /\ NetIdle
  /\ RegIdle
  /\ CleanIdle
  /\ DashIdle

NextSim == RunMonteCarlo \/ RunEnforcementScenarios

SpecSim == InitSim /\ [][NextSim]_vars

\* the Monte Carlo run alone, on raw tables of several rows
InitObserved ==
  /\ species_raw \in ValuedTables
  /\ scenario_entries = ReferenceScenarios
  /\ SimIdle
  /\ ChokeIdle
  /\ NetIdle
  /\ RegIdle
  /\ CleanIdle
  /\ DashIdle

NextObserved == RunMonteCarlo

SpecObserved == InitObserved /\ [][NextObserved]_vars

\* the network analysis on any incident table, or on none
InitNet ==
  /\ incidents_geo \in {NoFile} \cup { File(t) : t \in GeoTables }
  /\ net_status = "not run"
  /\ species_raw = <<>>
  /\ scenario_entries = ReferenceScenarios
  /\ ChokeIdle
  /\ SimIdle
  /\ RegIdle
  /\ CleanIdle
  /\ DashIdle

NextNet == RunNetwork

SpecNet == InitNet /\ [][NextNet]_vars

\* the regression on any incident-count table, or on none, and any three
\* indicator tables
InitReg ==
  /\ country_year \in {NoFile} \cup { File(t) : t \in CountryYearTables }
  /\ wdi_mammals \in CovariateTables
  /\ wdi_birds \in CovariateTables
  /\ wdi_fish \in CovariateTables
  /\ design = <<>>
  /\ regression_results = NoFile
  /\ country_risk_scores = NoFile
  /\ reg_status = "not run"
  /\ species_raw = <<>>
  /\ scenario_entries = ReferenceScenarios
  /\ ChokeIdle
  /\ SimIdle
  /\ NetIdle
  /\ CleanIdle
  /\ DashIdle

NextReg == RunRegression

SpecReg == InitReg /\ [][NextReg]_vars

\* the cleaning stage on any location file
InitClean ==
  /\ locations_raw \in LocationTables
  /\ clean_status = "not run"
  /\ species_raw = <<>>
  /\ scenario_entries = ReferenceScenarios
  /\ ChokeIdle
  /\ SimIdle
  /\ NetIdle
  /\ RegIdle
  /\ DashIdle

NextClean == CleanAll

SpecClean == InitClean /\ [][NextClean]_vars

\* the pipeline stages that write the tables of the two views, and the two
\* views, in any order
InitDash ==
  /\ species_raw \in { t \in RawTables : Len(t) <= 1 }
  /\ scenario_entries = ReferenceScenarios
  /\ route_edges \in { e \in EdgeTables : Len(e) <= 1 }
  /\ chokepoints \in { c \in ChokeTables : Len(c) <= 1 }
  /\ impact_csv = NoFile
  /\ top_n = 0
  /\ top_choke = <<>>
  /\ choke_status = "not run"
  /\ SimIdle
  /\ NetIdle
  /\ RegIdle
  /\ CleanIdle
  /\ DashIdle

NextDash ==
  \/ RunMonteCarlo
  \/ \E n \in 0..MaxTopN : RunChokepointScenario(n)
  \/ MarketSizeView
  \/ ScenarioView

SpecDash == InitDash /\ [][NextDash]_vars

(* ----------------- claims on the chokepoint scenario ------------------ *)

Saved == choke_status = "saved"

Hundred == [num |-> 100, den |-> 1]

\* the sum of count over the rows of df whose index is in I
RECURSIVE SumOver(_, _)
SumOver(df, I) ==
  IF I = {} THEN 0
  ELSE LET i == CHOOSE j \in I : TRUE
       IN  df[i].count + SumOver(df, I \ {i})

\* the countries of the first top_n rows of chokepoints.csv
FirstRows == 1..(IF top_n < Len(chokepoints) THEN top_n ELSE Len(chokepoints))
RemovedSet == { chokepoints[i].country : i \in FirstRows }

Untouched ==
  { i \in DOMAIN route_edges :
      /\ route_edges[i].origin_country \notin RemovedSet
      /\ route_edges[i].destination_country \notin RemovedSet }

\* C1: the row written by run_chokepoint_scenario has
\* reduction_pct = 100 * (baseline - disrupted) / baseline when baseline > 0,
\* and exactly 0 when baseline = 0; it is never the result of a division by 0.
C1_ReductionPct ==
  Saved =>
    LET r == impact_csv.rows[1]
        b == r.baseline_total_flow
        d == r.disrupted_total_flow
    IN  /\ IsFinite(r.reduction_pct)
        /\ b > 0 => r.reduction_pct.num * b = 100 * (b - d) * r.reduction_pct.den
        /\ b = 0 => r.reduction_pct = Zero

\* a non-empty edge table whose counts are all 0 has been processed
C1_Witness ==
  /\ Saved
  /\ route_edges # <<>>
  /\ impact_csv.rows[1].baseline_total_flow = 0

\* C2: the removed countries are those of the first top_n chokepoint rows, in
\* table order, and disrupted_total_flow is the sum of count over exactly the
\* edges with both endpoints outside the removed set.
C2_RemovedAndDisrupted ==
  Saved =>
    /\ top_choke = [i \in FirstRows |-> chokepoints[i].country]
    /\ impact_csv.rows[1].baseline_total_flow = SumOver(route_edges, DOMAIN route_edges)
    /\ impact_csv.rows[1].disrupted_total_flow = SumOver(route_edges, Untouched)

\* one chokepoint of two is removed; an edge leaving it, an edge entering it
\* and an edge that avoids it all carry flow
C2_Witness ==
  /\ Saved
  /\ top_n = 1
  /\ Len(chokepoints) = 2
  /\ \E i, j, k \in DOMAIN route_edges :
       /\ route_edges[i].count > 0 /\ route_edges[j].count > 0 /\ route_edges[k].count > 0
       /\ route_edges[i].origin_country = chokepoints[1].country
       /\ route_edges[j].destination_country = chokepoints[1].country
       /\ k \in Untouched
       /\ chokepoints[2].country \in
            {route_edges[k].origin_country, route_edges[k].destination_country}

\* C3: with top_n = 0 no country is removed, disrupted_total_flow equals
\* baseline_total_flow and reduction_pct is 0.
C3_TopNZero ==
  (Saved /\ top_n = 0) =>
    /\ top_choke = <<>>
    /\ impact_csv.rows[1].disrupted_total_flow = impact_csv.rows[1].baseline_total_flow
    /\ impact_csv.rows[1].reduction_pct = Zero

\* top_n = 0 on tables with flow through the first chokepoint
C3_Witness ==
  /\ Saved
  /\ top_n = 0
  /\ \E i \in DOMAIN route_edges :
       /\ route_edges[i].count > 0
       /\ chokepoints[1].country \in
            {route_edges[i].origin_country, route_edges[i].destination_country}

\* C4: when the edge table or the chokepoint table is empty, the run ends
\* skipped and scenario_chokepoint_impact.csv is left as it was.
C4_EmptyIsSkipped ==
  [][ (route_edges = <<>> \/ chokepoints = <<>>) =>
        (choke_status' = "skipped" /\ impact_csv' = impact_csv) ]_vars

\* a run was skipped on an empty table and an earlier output is still there
C4_Witness ==
  /\ choke_status = "skipped"
  /\ impact_csv = StaleImpact
  /\ route_edges # <<>>
  /\ chokepoints = <<>>

Nodes(edges) ==
  { edges[i].origin_country : i \in DOMAIN edges } \cup
  { edges[i].destination_country : i \in DOMAIN edges }

Joins(row, X, Y) ==
  \/ row.origin_country \in X /\ row.destination_country \in Y
  \/ row.origin_country \in Y /\ row.destination_country \in X

\* c is the only connection between two clusters: the other countries split
\* into two groups with no edge between them, each joined to c
SoleConnector(edges, c) ==
  LET N == Nodes(edges) \ {c}
  IN  \E X \in SUBSET N :
        /\ X # {} /\ N \ X # {}
        /\ \A i \in DOMAIN edges : ~Joins(edges[i], X, N \ X)
        /\ \E i \in DOMAIN edges : Joins(edges[i], {c}, X)
        /\ \E i \in DOMAIN edges : Joins(edges[i], {c}, N \ X)

\* the top-ranked chokepoint alone was removed from route edges with positive
\* counts between which it is the sole connector
SoleConnectorDisrupted ==
  /\ Saved
  /\ top_n = 1
  /\ \A i \in DOMAIN route_edges : route_edges[i].count > 0
  /\ SoleConnector(route_edges, chokepoints[1].country)

EveryEdgeTouchesTop ==
  \A i \in DOMAIN route_edges :
    chokepoints[1].country \in
      {route_edges[i].origin_country, route_edges[i].destination_country}

\* C5 as stated: disrupting the sole connector between two clusters leaves
\* disrupted_total_flow = 0 and reduction_pct = 100.
C5_Original ==
  SoleConnectorDisrupted =>
    /\ impact_csv.rows[1].disrupted_total_flow = 0
    /\ impact_csv.rows[1].reduction_pct = Hundred

\* C5, amended: disrupting the sole connector leaves exactly the flow of the
\* edges inside the clusters; disrupted_total_flow = 0 and reduction_pct = 100
\* when every edge has the chokepoint as an endpoint, and otherwise the flow
\* inside the clusters remains and reduction_pct is below 100.
C5_SoleConnector ==
  SoleConnectorDisrupted =>
    /\ impact_csv.rows[1].disrupted_total_flow = SumOver(route_edges, Untouched)
    /\ EveryEdgeTouchesTop =>
         /\ impact_csv.rows[1].disrupted_total_flow = 0
         /\ impact_csv.rows[1].reduction_pct = Hundred
    /\ ~EveryEdgeTouchesTop =>
         /\ impact_csv.rows[1].disrupted_total_flow > 0
         /\ FracLess(impact_csv.rows[1].reduction_pct, Hundred)

\* the sole connector of a star of three edges was removed
C5_Witness ==
  /\ SoleConnectorDisrupted
  /\ EveryEdgeTouchesTop
  /\ Len(route_edges) = 3

(* -------------------- claims on the simulations ----------------------- *)

McDone == mc_status = "complete"
EnfDone == enf_status = "complete"

One == [num |-> 1, den |-> 1]

\* 0 < low < high <= 1
ValidRange(low, high) ==
  FracLess(Zero, low) /\ FracLess(low, high) /\ FracLeq(high, One)

\* the sum of value_usd over the rows of a table
RECURSIVE TotalOver(_, _)
TotalOver(rows, I) ==
  IF I = {} THEN 0
  ELSE LET i == CHOOSE j \in I : TRUE
       IN  rows[i].value_usd + TotalOver(rows, I \ {i})

\* the observed total the enforcement scenarios read
ObservedInFile ==
  TotalOver(species_value_observed.rows, DOMAIN species_value_observed.rows)

\* a sample drawn for the range [low, high] from the observed total obs
SampleInRange(row, obs, low, high) ==
  /\ FracLeq(low, row.detection_rate)
  /\ FracLeq(row.detection_rate, high)
  /\ IsFinite(row.estimated_true_value_usd)
  /\ row.estimated_true_value_usd.num * row.detection_rate.num =
       obs * row.detection_rate.den * row.estimated_true_value_usd.den
  /\ obs * high.den * row.estimated_true_value_usd.den <=
       row.estimated_true_value_usd.num * high.num
  /\ row.estimated_true_value_usd.num * low.num <=
       obs * low.den * row.estimated_true_value_usd.den

\* the summary rows of the enforcement scenarios named name
SummaryRowsOf(name) ==
  { i \in DOMAIN scenario_enforcement_summary.rows :
      scenario_enforcement_summary.rows[i].scenario = name }

\* C6: for every scenario with 0 < low < high <= 1, each of the N samples of
\* the Monte Carlo run and of each enforcement scenario has detection_rate
\* in [low, high] and estimated_true_value_usd = observed_total /
\* detection_rate, which lies in [observed_total/high, observed_total/low].
C6_SampleBounds ==
  /\ McDone =>
       LET summary == monte_carlo_summary.rows[1]
       IN  /\ Len(monte_carlo_samples.rows) = iterations
           /\ \A i \in DOMAIN monte_carlo_samples.rows :
                SampleInRange(monte_carlo_samples.rows[i], summary.observed_total_usd,
                              summary.det_low, summary.det_high)
  /\ EnfDone =>
       \A j \in DOMAIN scenario_enforcement_samples.rows :
         \A i \in SummaryRowsOf(scenario_enforcement_samples.rows[j].scenario) :
           LET sc == scenario_enforcement_summary.rows[i]
           IN  ValidRange(sc.det_low, sc.det_high) =>
                 SampleInRange(scenario_enforcement_samples.rows[j], ObservedInFile,
                               sc.det_low, sc.det_high)

\* both runs are complete; one enforcement sample of a valid scenario sits on
\* the lower end of its range and another inside it
C6_Witness ==
  /\ McDone /\ EnfDone
  /\ \E i \in DOMAIN scenario_enforcement_summary.rows :
       LET sc == scenario_enforcement_summary.rows[i]
       IN  /\ ValidRange(sc.det_low, sc.det_high)
           /\ \E j, k \in DOMAIN scenario_enforcement_samples.rows :
                /\ scenario_enforcement_samples.rows[j].scenario = sc.scenario
                /\ scenario_enforcement_samples.rows[k].scenario = sc.scenario
                /\ scenario_enforcement_samples.rows[j].detection_rate = sc.det_low
                /\ FracLess(sc.det_low, scenario_enforcement_samples.rows[k].detection_rate)

Baseline(row) == row.det_low = detection_low /\ row.det_high = detection_high

\* obs / 0.30 < mean
AboveLowerEnd(mean, obs) == 10 * obs * mean.den < 3 * mean.num
\* mean < obs / 0.10
BelowUpperEnd(mean, obs) == mean.num < 10 * obs * mean.den
\* mean <= obs / 0.10
AtMostUpperEnd(mean, obs) == mean.num <= 10 * obs * mean.den

\* C7 as stated: for the baseline scenario (0.10, 0.30) the mean recorded in
\* the summary lies strictly between observed_total/0.30 and
\* observed_total/0.10, whatever rates are drawn.
C7_Original ==
  /\ McDone =>
       LET summary == monte_carlo_summary.rows[1]
       IN  /\ AboveLowerEnd(summary.mean_true_value_usd, summary.observed_total_usd)
           /\ BelowUpperEnd(summary.mean_true_value_usd, summary.observed_total_usd)
  /\ EnfDone =>
       \A i \in DOMAIN scenario_enforcement_summary.rows :
         LET sc == scenario_enforcement_summary.rows[i]
         IN  Baseline(sc) =>
               /\ AboveLowerEnd(sc.mean_true_value_usd, ObservedInFile)
               /\ BelowUpperEnd(sc.mean_true_value_usd, ObservedInFile)

\* C7, amended: the mean is above observed_total/0.30 and at most
\* observed_total/0.10; it equals observed_total/0.10 only when every drawn
\* rate is 0.10.
C7_MeanBounds ==
  /\ McDone =>
       LET summary == monte_carlo_summary.rows[1]
       IN  /\ summary.observed_total_usd > 0
           /\ AboveLowerEnd(summary.mean_true_value_usd, summary.observed_total_usd)
           /\ AtMostUpperEnd(summary.mean_true_value_usd, summary.observed_total_usd)
           /\ ~BelowUpperEnd(summary.mean_true_value_usd, summary.observed_total_usd) =>
                \A j \in DOMAIN monte_carlo_samples.rows :
                  monte_carlo_samples.rows[j].detection_rate = detection_low
  /\ EnfDone =>
       \A i \in DOMAIN scenario_enforcement_summary.rows :
         LET sc == scenario_enforcement_summary.rows[i]
         IN  Baseline(sc) =>
               /\ ObservedInFile > 0
               /\ AboveLowerEnd(sc.mean_true_value_usd, ObservedInFile)
               /\ AtMostUpperEnd(sc.mean_true_value_usd, ObservedInFile)
               /\ ~BelowUpperEnd(sc.mean_true_value_usd, ObservedInFile) =>
                    \A j \in DOMAIN scenario_enforcement_samples.rows :
                      scenario_enforcement_samples.rows[j].scenario = sc.scenario =>
                        scenario_enforcement_samples.rows[j].detection_rate = detection_low

\* both summaries hold a baseline mean strictly inside the interval, each
\* from two different drawn rates
C7_Witness ==
  /\ McDone /\ EnfDone
  /\ BelowUpperEnd(monte_carlo_summary.rows[1].mean_true_value_usd,
                   monte_carlo_summary.rows[1].observed_total_usd)
  /\ monte_carlo_samples.rows[1].detection_rate # monte_carlo_samples.rows[2].detection_rate
  /\ \E i \in DOMAIN scenario_enforcement_summary.rows :
       /\ Baseline(scenario_enforcement_summary.rows[i])
       /\ BelowUpperEnd(scenario_enforcement_summary.rows[i].mean_true_value_usd,
                        ObservedInFile)
       /\ \E j, k \in DOMAIN scenario_enforcement_samples.rows :
            /\ scenario_enforcement_samples.rows[j].scenario =
                 scenario_enforcement_summary.rows[i].scenario
            /\ scenario_enforcement_samples.rows[k].scenario =
                 scenario_enforcement_summary.rows[i].scenario
            /\ scenario_enforcement_samples.rows[j].detection_rate #
                 scenario_enforcement_samples.rows[k].detection_rate

ConfiguredScenarios == DictLiteral(scenario_entries)

\* C9: the summary has one row per configured scenario, in configured order,
\* with det_low and det_high equal to the configured bounds, and the samples
\* table lists the scenarios' blocks in the same order.
C9_SummaryOrder ==
  EnfDone =>
    LET cfg == ConfiguredScenarios
        summary == scenario_enforcement_summary.rows
        samples == scenario_enforcement_samples.rows
    IN  /\ Len(summary) = Len(cfg)
        /\ \A i \in DOMAIN cfg :
             /\ summary[i].scenario = cfg[i].name
             /\ summary[i].det_low = cfg[i].low
             /\ summary[i].det_high = cfg[i].high
        /\ Len(samples) = Len(cfg) * iterations
        /\ \A i \in DOMAIN cfg : \A k \in 1..iterations :
             samples[(i - 1) * iterations + k].scenario = cfg[i].name

\* the three scenarios of the repository have been run
C9_Witness ==
  /\ EnfDone
  /\ scenario_entries = ReferenceScenarios
  /\ Len(scenario_enforcement_summary.rows) = 3

HasDuplicateNames(entries) ==
  \E i, j \in DOMAIN entries : i # j /\ entries[i].name = entries[j].name

NetDone == net_status = "complete"

\* the rows of incidents_geo.csv whose two endpoint cells read o and d
RowsWithPair(o, d) ==
  { k \in 1..Len(incidents_geo.rows) :
      /\ incidents_geo.rows[k].origin_country = o
      /\ incidents_geo.rows[k].destination_country = d }

\* C11: the keys (origin_country, destination_country) of route_edges.csv
\* are unique, every ordered pair of countries found in the incident rows has
\* its edge, and the count of an edge is the number of incident rows with
\* exactly that ordered pair.
C11_EdgeCounts ==
  NetDone =>
    /\ \A i, j \in DOMAIN route_edges :
         /\ route_edges[i].origin_country = route_edges[j].origin_country
         /\ route_edges[i].destination_country = route_edges[j].destination_country
         => i = j
    /\ \A i \in DOMAIN route_edges :
         route_edges[i].count =
           Cardinality(RowsWithPair(route_edges[i].origin_country,
                                    route_edges[i].destination_country))
    /\ \A o \in NetCountries, d \in NetCountries :
         RowsWithPair(o, d) # {} =>
           \E i \in DOMAIN route_edges :
             /\ route_edges[i].origin_country = o
             /\ route_edges[i].destination_country = d

\* two incident rows of one route became one edge of count 2
C11_Witness ==
  /\ NetDone
  /\ Len(incidents_geo.rows) >= 2
  /\ \E i \in DOMAIN route_edges : route_edges[i].count = 2

\* the incident rows in which both endpoint cells hold a country
BothPresent ==
  { k \in 1..Len(incidents_geo.rows) :
      /\ incidents_geo.rows[k].origin_country \in NetCountries
      /\ incidents_geo.rows[k].destination_country \in NetCountries }

\* C12: the counts of the route edges add up to the number of incident rows
\* that have both endpoints, and every endpoint of an edge is a country:
\* never a missing value, an empty cell or the text "nan".
C12_MissingEndpoints ==
  NetDone =>
    /\ SumCount(route_edges) = Cardinality(BothPresent)
    /\ \A i \in DOMAIN route_edges :
         /\ route_edges[i].origin_country \in NetCountries
         /\ route_edges[i].destination_country \in NetCountries

\* a run over a row that lacks an endpoint and a row that has both
C12_Witness ==
  /\ NetDone
  /\ Cardinality(BothPresent) = 1
  /\ \E k \in 1..Len(incidents_geo.rows) :
       /\ k \notin BothPresent
       /\ "nan" \in {incidents_geo.rows[k].origin_country,
                     incidents_geo.rows[k].destination_country}
  /\ Len(route_edges) = 1

\* the countries that are an endpoint of some route edge
EdgeNodes ==
  { route_edges[i].origin_country : i \in DOMAIN route_edges } \cup
  { route_edges[i].destination_country : i \in DOMAIN route_edges }

\* C13: chokepoints.csv has exactly one row per node of the route graph, is
\* sorted by centrality descending, and rows of equal centrality are in
\* ascending order of country name.
C13_ChokepointOrder ==
  NetDone =>
    /\ Len(chokepoints) = Cardinality(EdgeNodes)
    /\ { chokepoints[i].country : i \in DOMAIN chokepoints } = EdgeNodes
    /\ \A i \in 1..(Len(chokepoints) - 1) :
         /\ FracLeq(chokepoints[i + 1].centrality, chokepoints[i].centrality)
         /\ chokepoints[i].centrality = chokepoints[i + 1].centrality =>
              Rank(chokepoints[i].country) < Rank(chokepoints[i + 1].country)

(* -------------------- claims on the observed total --------------------- *)

\* the rows of the raw species table whose value is a number above 0
ValidRows ==
  { k \in 1..Len(species_raw) :
      species_raw[k].value_usd.numeric /\ species_raw[k].value_usd.value > 0 }

RECURSIVE RawTotal(_)
RawTotal(I) ==
  IF I = {} THEN 0
  ELSE LET i == CHOOSE j \in I : TRUE
       IN  species_raw[i].value_usd.value + RawTotal(I \ {i})

\* C14: observed_total is the sum of the values of the rows whose value is a
\* number above 0 and of no other row; the species in
\* species_value_observed.csv are the species of those rows, each with a
\* value above 0, and their values add up to the same observed_total.
C14_ObservedTotal ==
  McDone =>
    /\ monte_carlo_summary.rows[1].observed_total_usd = RawTotal(ValidRows)
    /\ ObservedInFile = RawTotal(ValidRows)
    /\ { species_value_observed.rows[i].species_name :
           i \in DOMAIN species_value_observed.rows } =
         { CleanName(species_raw[k].species_name) : k \in ValidRows }
    /\ \A i \in DOMAIN species_value_observed.rows :
         species_value_observed.rows[i].value_usd > 0

\* a run over a row with a valid value and a row without one
C14_Witness ==
  /\ McDone
  /\ Cardinality(ValidRows) = 1
  /\ Len(species_raw) = 2
  /\ \E k \in 1..Len(species_raw) :
       species_raw[k].value_usd.numeric /\ species_raw[k].value_usd.value < 0

McFiles == <<species_value_observed, monte_carlo_samples, monte_carlo_summary>>

\* C20: a run over a table without a valid positive value reports it and
\* writes none of the three tables; at any time the three tables are all
\* there or all absent, and when there they come from one observed_total:
\* the total of the species table is the total of the summary and the
\* numerator of every sample.
C20_AllOrNothing ==
  /\ (mc_status # "not run" /\ ValidRows = {}) =>
       /\ mc_status = "aborted"
       /\ \A i \in 1..3 : McFiles[i] = NoFile
  /\ (\A i \in 1..3 : McFiles[i].exists) \/ (\A i \in 1..3 : ~McFiles[i].exists)
  /\ species_value_observed.exists =>
       /\ mc_status = "complete"
       /\ Len(monte_carlo_summary.rows) = 1
       /\ monte_carlo_summary.rows[1].observed_total_usd = ObservedInFile
       /\ Len(monte_carlo_samples.rows) = iterations
       /\ \A i \in DOMAIN monte_carlo_samples.rows :
            LET row == monte_carlo_samples.rows[i]
            IN  row.estimated_true_value_usd.num * row.detection_rate.num =
                  ObservedInFile * row.detection_rate.den *
                  row.estimated_true_value_usd.den

\* a run over rows none of which has a valid positive value
C20_Witness ==
  /\ mc_status = "aborted"
  /\ Len(species_raw) = 2
  /\ ValidRows = {}
  /\ \A i \in 1..3 : McFiles[i] = NoFile

(* ---------------------- claims on the regression ----------------------- *)

RegDone == reg_status = "complete"

\* the indicator table has a row for the key of incident row i
Covered(table, i) ==
  HasRow(table, country_year.rows[i].incident_country, country_year.rows[i].year)

\* the value the indicator table holds for the key of incident row i
OwnValue(table, i) ==
  LET j == CHOOSE k \in 1..Len(table) :
             /\ table[k].country = country_year.rows[i].incident_country
             /\ table[k].year = country_year.rows[i].year
  IN  [num |-> table[j].value, den |-> 1]

C16_OwnTableValue ==
  RegDone =>
    \A i \in DOMAIN design :
      /\ Covered(wdi_mammals, i) =>
           design[i].threatened_mammals = OwnValue(wdi_mammals, i)
      /\ Covered(wdi_birds, i) =>
           design[i].threatened_birds = OwnValue(wdi_birds, i)
      /\ Covered(wdi_fish, i) =>
           design[i].threatened_fish = OwnValue(wdi_fish, i)

\* C17: a run whose joined table has fewer than 4 rows does not complete
\* and writes neither regression_results.csv nor country_risk_scores.csv.
C17_TooFewRows ==
  (reg_status # "not run" /\ Len(country_year.rows) < 4) =>
    /\ reg_status # "complete"
    /\ regression_results = NoFile
    /\ country_risk_scores = NoFile

\* the coefficient written for a variable
Coefficient(variable) ==
  regression_results.rows[CHOOSE j \in DOMAIN regression_results.rows :
                            regression_results.rows[j].variable = variable].coefficient

\* coefficient times covariate over the three covariates of row i of the fit
FitScore(i) ==
  FracAdd(FracMul(Coefficient("threatened_mammals"), design[i].threatened_mammals),
    FracAdd(FracMul(Coefficient("threatened_birds"), design[i].threatened_birds),
            FracMul(Coefficient("threatened_fish"), design[i].threatened_fish)))

RECURSIVE FitScoreSum(_)
FitScoreSum(I) ==
  IF I = {} THEN Zero
  ELSE LET i == CHOOSE j \in I : TRUE
       IN  FracAdd(FitScore(i), FitScoreSum(I \ {i}))

\* the incident rows of a country
YearsOf(country) ==
  { i \in DOMAIN country_year.rows : country_year.rows[i].incident_country = country }

\* C18: country_risk_scores.csv has one row per country of country_year.csv;
\* its risk_score is a number, the average over the country's rows of the
\* coefficient-weighted covariates as they entered the fit (missing = 0);
\* the rows are in descending order of risk_score.
C18_RiskScores ==
  RegDone =>
    LET risk == country_risk_scores.rows
    IN  /\ { risk[j].incident_country : j \in DOMAIN risk } =
             { country_year.rows[i].incident_country : i \in DOMAIN country_year.rows }
        /\ \A j, k \in DOMAIN risk :
             risk[j].incident_country = risk[k].incident_country => j = k
        /\ \A j \in DOMAIN risk :
             /\ IsFinite(risk[j].risk_score)
             /\ risk[j].risk_score =
                  FracDiv(FitScoreSum(YearsOf(risk[j].incident_country)),
                          [num |-> Cardinality(YearsOf(risk[j].incident_country)), den |-> 1])
        /\ \A j \in 1..(Len(risk) - 1) :
             FracLeq(risk[j + 1].risk_score, risk[j].risk_score)

(* ------------------- claims on stages run out of order ----------------- *)

\* C19: in whatever order the stages run, a stage that does not find the
\* file an earlier stage should have written ends as skipped: no consumer
\* ends in the unhandled failure of its read.
C19_MissingFileSkips ==
  /\ enf_status # "crashed"
  /\ net_status # "crashed"

(* ------------------------ claims on the cleaning ----------------------- *)

\* the reports of the location file
Reported == { locations_raw[i].incident_id : i \in 1..Len(locations_raw) }

\* C21: incidents_geo.csv has exactly one row per incident_id of the file,
\* however many location rows the report has, and incident_count of a
\* (country, year) in country_year.csv is the number of distinct reports of
\* that country and year.
C21_OneRowPerIncident ==
  clean_status = "complete" =>
    /\ \A id \in Reported :
         Cardinality({ i \in DOMAIN incidents_geo.rows :
                         incidents_geo.rows[i].incident_id = id }) = 1
    /\ \A j \in DOMAIN country_year.rows :
         country_year.rows[j].incident_count =
           Cardinality({ id \in Reported :
                           /\ IncidentOf(id).incident_country =
                                country_year.rows[j].incident_country
                           /\ IncidentOf(id).year = country_year.rows[j].year })

(* ------------------------ claims on the dashboard ---------------------- *)

\* C22: the Market Size view takes its median, p10, p90 and histogram from
\* the column estimated_true_value_usd of monte_carlo_samples.csv, and the
\* Scenario Analysis view charts baseline_total_flow as the baseline and
\* disrupted_total_flow as the flow after the intervention.
C22_ColumnsByName ==
  /\ market_view.status = "shown" =>
       /\ market_view.value_col = "estimated_true_value_usd"
       /\ market_view.histogram =
            ColumnList(monte_carlo_samples.rows, "estimated_true_value_usd")
       /\ market_view.median_val = Quantile(market_view.histogram, 50)
       /\ market_view.p10 = Quantile(market_view.histogram, 10)
       /\ market_view.p90 = Quantile(market_view.histogram, 90)
  /\ scenario_view.status = "shown" =>
       /\ scenario_view.base_col = "baseline_total_flow"
       /\ scenario_view.after_col = "disrupted_total_flow"

(* ------------------ claims on the bounds of the impact row ------------- *)

PositiveCounts == \A i \in DOMAIN route_edges : route_edges[i].count > 0

\* every endpoint of an edge is a row of chokepoints.csv
ListsEveryNode ==
  \A i \in DOMAIN route_edges :
    \A c \in {route_edges[i].origin_country, route_edges[i].destination_country} :
      \E j \in DOMAIN chokepoints : chokepoints[j].country = c

\* 0 <= disrupted <= baseline and 0 <= reduction_pct <= 100 in the row
\* written; all flow gone when every node is removed
ImpactRowBounds ==
  (Saved /\ PositiveCounts) =>
    LET r == impact_csv.rows[1]
    IN  /\ 0 <= r.disrupted_total_flow
        /\ r.disrupted_total_flow <= r.baseline_total_flow
        /\ FracLeq(Zero, r.reduction_pct)
        /\ FracLeq(r.reduction_pct, Hundred)
        /\ (top_n >= Len(chokepoints) /\ ListsEveryNode) =>
             /\ r.disrupted_total_flow = 0
             /\ r.reduction_pct = Hundred

\* a run with a top_n at least as large as the run before it, on the same
\* tables, writes a disrupted_total_flow that is not larger
DisruptedNonIncreasing ==
  (Saved /\ Saved' /\ PositiveCounts /\ top_n <= top_n') =>
    impact_csv'.rows[1].disrupted_total_flow <= impact_csv.rows[1].disrupted_total_flow

\* C23: for edge tables with positive counts, any chokepoint table and any
\* top_n >= 0, the written row has 0 <= disrupted_total_flow <=
\* baseline_total_flow and 0 <= reduction_pct <= 100; disrupted_total_flow
\* does not grow with top_n; and when top_n covers the whole chokepoint
\* table and the table lists every node of the edges, disrupted_total_flow
\* is 0 and reduction_pct is 100.
C23_ImpactRowBounds == []ImpactRowBounds /\ [][DisruptedNonIncreasing]_vars

\* a run removed every node of a table of two or more edges with flow
C23_Witness ==
  /\ Saved
  /\ PositiveCounts
  /\ Len(route_edges) >= 2
  /\ Len(chokepoints) = 2
  /\ top_n >= 2
  /\ ListsEveryNode
  /\ impact_csv.rows[1].disrupted_total_flow = 0
  /\ impact_csv.rows[1].baseline_total_flow >= 2

====
